---- MODULE Spec2Model ----
(***************************************************************************)
(* Model of the OptiCode account and session-history backend:              *)
(*   src/app.py       the Flask request handlers                           *)
(*   src/database.py  the MongoDB operations they call                     *)
(*                                                                         *)
(* The store is the two collections (users, optimizations).  Requests are  *)
(* served by worker threads (Procs).  A handler that issues one database   *)
(* call is one action; a handler that issues two (toggle_star: find_one,   *)
(* then update_one) and the register handler (validate and hash, then      *)
(* insert_one) are split at the database call, so that other requests can  *)
(* run in between.  Strings are sequences of one-character strings, so     *)
(* that strip() and lower() are computed, not assumed.  A token is its     *)
(* payload and the key it was signed with; `tokens` are the tokens issued, *)
(* `calls` the calls the last step made to a collection or the pipeline.   *)
(***************************************************************************)
EXTENDS Integers, Sequences, FiniteSets, TLC

\* ------------------------------------------------------------------ bounds
\* The number of optimization documents ever inserted (ObjectIds handed out).
MaxSessions == 2
\* The worker threads that serve requests.
Procs == {"p1", "p2"}

VARIABLES
    users,      \* users_collection: set of user documents
    sessions,   \* optimizations_collection: set of optimization documents
    nextUid,    \* ObjectIds handed out to user documents so far
    nextSid,    \* ObjectIds handed out to optimization documents so far
    clock,      \* datetime.utcnow()
    pc,         \* pc[p]: where worker p stands in its handler
    loc,        \* loc[p]: the handler's local variables
    last,       \* the response most recently sent
    tokens,     \* the tokens issued so far, which the clients hold
    calls       \* the database and pipeline calls of the latest step

vars == <<users, sessions, nextUid, nextSid, clock, pc, loc, last, tokens, calls>>

\* ----------------------------------------------------------------- strings
Whitespace == {" "}

RECURSIVE LStrip(_)
LStrip(s) ==
    IF s # <<>> /\ Head(s) \in Whitespace THEN LStrip(Tail(s)) ELSE s

RECURSIVE RStrip(_)
RStrip(s) ==
    IF s # <<>> /\ s[Len(s)] \in Whitespace
    THEN RStrip(SubSeq(s, 1, Len(s) - 1))
    ELSE s

\* strip() left out.
StripKept(s) == s

\* str.strip()
Strip(s) == RStrip(LStrip(s))

\* lower() left out.
LowerCharKept(c) == c

LowerChar(c) ==
    CASE c = "A" -> "a"
      [] c = "B" -> "b"
      [] OTHER   -> c

\* str.lower()
Lower(s) == [i \in 1..Len(s) |-> LowerChar(s[i])]

\* ------------------------------------------------------------ request data
\* The bodies a client may send to register: "name", "email", "password".
Secret == <<"s", "e", "c", "r", "e", "t">>
RegisterBody(name, email, password) ==
    [name |-> name, email |-> email, password |-> password]
RegisterInputs ==
    { RegisterBody(<<"n">>, e, Secret) :
        e \in { <<"a">>, <<"A">>, <<" ", "A">>, <<"a", " ">>, <<"b">>,
                <<" ", "B", " ">> } }
    \cup
    { RegisterBody(<<" ", "n", " ">>, <<"a">>, <<" ">> \o Secret \o <<" ">>),
      RegisterBody(<<>>, <<"a">>, Secret),
      RegisterBody(<<" ">>, <<"a">>, Secret),
      RegisterBody(<<"n">>, <<>>, Secret),
      RegisterBody(<<"n">>, <<" ">>, Secret),
      RegisterBody(<<"n">>, <<"a">>, <<>>),
      RegisterBody(<<"n">>, <<"a">>, <<" ", " ">>),
      RegisterBody(<<"n">>, <<"a">>, <<"s", "h", "o", "r", "t">>),
      RegisterBody(<<"n">>, <<"a">>, <<" ", "s", "h", "o", "r", "t">>) }

\* What a client may send as "name" to rename.
RenameInputs == { <<>>, <<" ">>, <<"x">>, <<" ", "x", " ">> }
NonBlankRenameInputs == { n \in RenameInputs : \E i \in 1..Len(n) : n[i] # " " }

\* What a client may put in the path as <session_id>.
SessionIdInputs == 1..MaxSessions

\* What a client may send as "optimization_level".
LevelInputs == { "none", "level1", "level2", "LEVEL_1", "LEVEL_2",
                 "level_1", "level_2", "Level1" }

\* The analyse requests: the body's "code" and "optimization_level", what
\* run_pipeline does with them (it raises, or returns a result whose
\* passed_error_check is true or false) and whether save_optimization's
\* insert_one succeeds.
AnalyseRun(code, level, outcome, save_ok) ==
    [code |-> code, level |-> level, outcome |-> outcome, save_ok |-> save_ok]
AnalyseInputs ==
    { AnalyseRun(<<"c">>, l, "passed", TRUE) : l \in LevelInputs }
    \cup
    { AnalyseRun(<<>>, "none", "passed", TRUE),
      AnalyseRun(<<" ">>, "level1", "passed", TRUE),
      AnalyseRun(<<" ", "c">>, "level1", "raises", TRUE),
      AnalyseRun(<<"c">>, "level2", "failed", TRUE),
      AnalyseRun(<<"c">>, "LEVEL_2", "passed", FALSE) }

\* VALID_LEVELS
VALID_LEVELS == { "none", "level1", "level2" }

\* _LEVEL_ALIASES.get(level, level)
\* The table with its upper-case entries only.
LevelAliasUpperOnly(level) ==
    CASE level = "LEVEL_1" -> "level1"
      [] level = "LEVEL_2" -> "level2"
      [] OTHER -> level

\* _LEVEL_ALIASES.get(optimization_level, optimization_level)
LevelAlias(level) ==
    CASE level \in {"LEVEL_1", "level_1"} -> "level1"
      [] level \in {"LEVEL_2", "level_2"} -> "level2"
      [] OTHER -> level

\* No session id (None), no caller (a route without require_auth).
NoId == 0

\* bcrypt.hashpw / bcrypt.checkpw: the hash keeps which password made it.
HashPw(password) == <<"bcrypt">> \o password
CheckPw(password, hashed) == hashed = HashPw(password)

\* A response: the handler, the authenticated caller (g.user_id), the
\* session id of the path, the HTTP status, and the body's payload.
Response(op, caller, sid, status, val) ==
    [caller |-> caller, op |-> op, sid |-> sid, status |-> status, val |-> val]

\* The locals of a handler that is between two database calls: g.user_id,
\* session_id and new_val (star_session), body's email as received and
\* name, email and hashed (register).
Idle == [caller |-> NoId, sid |-> NoId, new_val |-> FALSE,
         raw |-> <<>>, name |-> <<>>, email |-> <<>>, hashed |-> <<>>]

\* The ids of the registered users: the subjects of the tokens issued.
UserIds == { u._id : u \in users }

\* A call that a handler makes to a collection or to the pipeline, with the
\* filter or the document it passes.
Call(target, call, arg) == [target |-> target, call |-> call, arg |-> arg]

\* A document matches a filter when it has the filter's value at each of
\* the filter's keys.
Matches(d, filter) == \A k \in DOMAIN filter : d[k] = filter[k]

\* -------------------------------------------------------------------- time
\* The clock counts ticks, finer than the whole seconds a token carries.
TicksPerSecond == 2
Minute == 60 * TicksPerSecond
Hour == 60 * Minute
Day == 24 * Hour

\* JWT_EXPIRES = timedelta(days=7)
JWT_EXPIRES == 7 * Day

\* pyjwt.encode writes a datetime claim as timegm(utctimetuple()): the
\* time in whole seconds, the fraction dropped.
NumericDate(t) == (t \div TicksPerSecond) * TicksPerSecond

\* ------------------------------------------------------------------ tokens
JWT_SECRET == "JWT_SECRET_KEY"

\* The HS256 signature: made with a key, over a payload.
Sign(payload, key) == [key |-> key, over |-> payload]

\* _make_token
MakeToken(user, now) ==
    LET payload == [sub   |-> user._id,
                    name  |-> user.name,
                    email |-> user.email,
                    iat   |-> NumericDate(now),
                    exp   |-> NumericDate(now + JWT_EXPIRES)]
    IN  [payload |-> payload, sig |-> Sign(payload, JWT_SECRET)]

\* pyjwt.decode that accepts a token until a tick after its exp.
DecodeLate(token, now) ==
    IF token.sig # Sign(token.payload, JWT_SECRET) THEN "InvalidTokenError"
    ELSE IF token.payload.iat > now THEN "InvalidTokenError"
    ELSE IF token.payload.exp < now THEN "ExpiredSignatureError"
    ELSE "ok"

\* pyjwt.decode without the verification of the signature.
DecodeUnverified(token, now) ==
    IF token.payload.iat > now THEN "InvalidTokenError"
    ELSE IF token.payload.exp <= now THEN "ExpiredSignatureError"
    ELSE "ok"

\* pyjwt.decode(token, JWT_SECRET, algorithms=[JWT_ALGO]): the signature is
\* verified, then the claims iat and exp against the clock.
Decode(token, now) ==
    IF token.sig # Sign(token.payload, JWT_SECRET) THEN "InvalidTokenError"
    ELSE IF token.payload.iat > now THEN "InvalidTokenError"
    ELSE IF token.payload.exp <= now THEN "ExpiredSignatureError"
    ELSE "ok"

\* An Authorization header: the text up to the token, and the token.
Header(prefix, token) == [prefix |-> prefix, token |-> token]

\* What is not a token of this server: a text that is no JWT, a payload
\* signed with another key, an issued token whose payload was changed.
NotAToken ==
    LET payload == [sub |-> NoId, name |-> <<>>, email |-> <<>>, iat |-> 0, exp |-> 0]
    IN  [payload |-> payload, sig |-> Sign(payload, "")]
Forged(token, sub) ==
    LET payload == [token.payload EXCEPT !.sub = sub, !.exp = @ + JWT_EXPIRES]
    IN  [payload |-> payload, sig |-> Sign(payload, "guess")]
Tampered(token, sub) ==
    [payload |-> [token.payload EXCEPT !.sub = sub, !.name = <<>>],
     sig |-> token.sig]

\* The headers a client may send, holding the tokens `held`.
HeaderInputs(held) ==
    { Header("", NotAToken), Header("Bearer ", NotAToken) }
    \cup { Header(pre, tk) : pre \in {"Bearer ", "Bearer", "Basic "}, tk \in held }
    \cup UNION { { Header("Bearer ", Forged(tk, sub)),
                    Header("Bearer ", Tampered(tk, sub)) } :
                  tk \in held, sub \in UserIds }

\* ------------------------------------------------------------------- init
Init ==
    /\ users = {}
    /\ sessions = {}
    /\ nextUid = 0
    /\ nextSid = 0
    /\ clock = 0
    /\ pc = [p \in Procs |-> "idle"]
    /\ loc = [p \in Procs |-> Idle]
    /\ last = Response("none", NoId, NoId, 0, <<>>)
    /\ tokens = {}
    /\ calls = <<>>

\* The wall clock advances.  Only save_optimization reads it, and only the
\* order of its readings matters, so a tick is counted against a document
\* saved: every order of created_at values, ties included, still arises.
Tick ==
    /\ clock < nextSid
    /\ clock' = clock + 1
    /\ UNCHANGED <<users, sessions, nextUid, nextSid, pc, loc, last, tokens, calls>>

\* ------------------------------------------------------------- user store
\* The collection without its unique index.
DuplicateKeyNoIndex(coll, email) == FALSE

\* The unique index on "email": insert_one raises DuplicateKeyError.
DuplicateKey(coll, email) == \E u \in coll : u.email = email

\* create_user's document.
UserDoc(id, name, email, hashed) ==
    [_id |-> id, name |-> name, email |-> Strip(Lower(email)), password |-> hashed]

\* _serialize_user: the document without its password.
SerializeUser(doc) == [_id |-> doc._id, name |-> doc.name, email |-> doc.email]

\* find_user_by_email
EmailQuery(email) == [email |-> Strip(Lower(email))]
FindUserByEmail(coll, email) ==
    { u \in coll : Matches(u, EmailQuery(email)) }

\* find_one without its filter: whichever user comes first.
FindUserByIdUnfiltered(coll, id) == { SerializeUser(u) : u \in coll }

\* find_user_by_id
FindUserById(coll, id) == { SerializeUser(u) : u \in { v \in coll : v._id = id } }

\* register, up to the call of create_user: the fields are stripped, the
\* email lower-cased, the request validated and the password hashed.
RegisterBegin(p, body) ==
    LET name     == Strip(body.name)
        email    == Lower(Strip(body.email))
        password == Strip(body.password)
    IN  /\ pc[p] = "idle"
        /\ IF name = <<>> \/ email = <<>> \/ password = <<>>
           THEN /\ last' = Response("register", NoId, NoId, 400, <<"required">>)
                /\ UNCHANGED <<pc, loc>>
           ELSE IF Len(password) < 6
           THEN /\ last' = Response("register", NoId, NoId, 400, <<"short">>)
                /\ UNCHANGED <<pc, loc>>
           ELSE /\ pc' = [pc EXCEPT ![p] = "reg_insert"]
                /\ loc' = [loc EXCEPT ![p] =
                       [Idle EXCEPT !.raw = body.email, !.name = name,
                                    !.email = email,
                                    !.hashed = HashPw(password)]]
                /\ UNCHANGED last
        /\ calls' = <<>>
        /\ UNCHANGED <<users, sessions, nextUid, nextSid, clock, tokens>>

\* register, from the call of create_user: insert_one under the unique
\* index, then the token and the 201, or the 409.
RegisterInsert(p) ==
    LET doc == UserDoc(nextUid + 1, loc[p].name, loc[p].email, loc[p].hashed)
    IN  /\ pc[p] = "reg_insert"
        /\ calls' = << Call("users", "insert_one",
                            [name |-> doc.name, email |-> doc.email,
                             password |-> doc.password]) >>
        /\ IF DuplicateKey(users, doc.email)
           THEN /\ last' = Response("register", NoId, NoId, 409, <<"exists">>)
                /\ UNCHANGED <<users, nextUid, tokens>>
           ELSE /\ users' = users \cup {doc}
                /\ nextUid' = nextUid + 1
                /\ tokens' = tokens \cup { MakeToken(SerializeUser(doc), clock) }
                /\ last' = Response("register", doc._id, NoId, 201, doc.email)
        /\ pc' = [pc EXCEPT ![p] = "idle"]
        /\ loc' = [loc EXCEPT ![p] = Idle]
        /\ UNCHANGED <<sessions, nextSid, clock>>

\* -------------------------------------------------------- session store
\* save_optimization's auto-generated name: the clock, to the minute.
AutoName(t) == <<"S", ToString(t \div Minute)>>

\* save_optimization's document, before and after insert_one gives it an id.
NewSession(user_id, original_code, level, changes, t) ==
    [user_id |-> user_id, name |-> AutoName(t), original_code |-> original_code,
     level |-> level, changes |-> changes, starred |-> FALSE, created_at |-> t]
SessionDoc(id, user_id, original_code, level, changes, t) ==
    [_id |-> id, user_id |-> user_id, name |-> AutoName(t),
     original_code |-> original_code, level |-> level, changes |-> changes,
     starred |-> FALSE, created_at |-> t]

\* The filters the operations pass to the collection.
OwnedQuery(id, uid) == [_id |-> id, user_id |-> uid]
UserQuery(uid) == [user_id |-> uid]

\* The filter without its "user_id".
OwnedFilterIdOnly(d, id, uid) == d._id = id

\* The filter {"_id": ObjectId(optimization_id), "user_id": user_id}.
OwnedFilter(d, id, uid) == Matches(d, OwnedQuery(id, uid))

\* sort("created_at", ASCENDING).
SortedAscending(seq) ==
    \A i, j \in 1..Len(seq) : i < j => seq[i].created_at <= seq[j].created_at

\* sort("created_at", DESCENDING): documents with equal created_at come in
\* an order the backend chooses.
SortedDescending(seq) ==
    \A i, j \in 1..Len(seq) : i < j => seq[i].created_at >= seq[j].created_at

\* get_user_optimizations: the lists find({"user_id": user_id}).sort(...)
\* may return.
GetUserOptimizations(coll, uid) ==
    LET matched == { d \in coll : Matches(d, UserQuery(uid)) }
        n == Cardinality(matched)
    IN  { seq \in [1..n -> matched] :
            /\ \A i, j \in 1..n : i # j => seq[i] # seq[j]
            /\ SortedDescending(seq) }

\* get_optimization_by_id
GetOptimizationById(coll, id, uid) == { d \in coll : OwnedFilter(d, id, uid) }

\* delete_one that takes every document of the user.
DeleteMatchedAllOfUser(coll, id, uid) == { d \in coll : d.user_id = uid }

\* delete_optimization: delete_one with the filter on id and user_id.
DeleteMatched(coll, id, uid) == { d \in coll : OwnedFilter(d, id, uid) }

\* rename_optimization: update_one with the filter on id and user_id;
\* modified_count counts the documents the update changed.
RenameMatchedAnyOwner(coll, id, uid) == { d \in coll : d._id = id }
RenameMatched(coll, id, uid) == { d \in coll : OwnedFilter(d, id, uid) }
RenameModified(coll, id, uid, new_name) ==
    { d \in RenameMatched(coll, id, uid) : d.name # new_name }

\* toggle_star: the find_one, the flipped value, the update_one's filter.
ToggleFoundById(coll, id, uid) == { d \in coll : d._id = id }
ToggleFound(coll, id, uid) == { d \in coll : OwnedFilter(d, id, uid) }
ToggleNewValUnflipped(doc) == doc.starred
ToggleNewVal(doc) == ~doc.starred
ToggleWriteQuery(id, uid) == [_id |-> id]
ToggleWriteFilter(d, id, uid) == Matches(d, ToggleWriteQuery(id, uid))

\* get_user_stats: the $match stage, the $group stage (one pass over the
\* matched documents), and the row returned.
None == -1
MaxTime(a, b) == IF a = None \/ b > a THEN b ELSE a
StatsMatchAll(coll, uid) == coll
StatsMatch(coll, uid) == { d \in coll : Matches(d, UserQuery(uid)) }

RECURSIVE GroupStage(_, _)
GroupStage(docs, acc) ==
    IF docs = {} THEN acc
    ELSE LET d == CHOOSE x \in docs : TRUE
         IN  GroupStage(docs \ {d},
                [total         |-> acc.total + 1,
                 level1_count  |-> acc.level1_count + (IF d.level = "level1" THEN 1 ELSE 0),
                 level2_count  |-> acc.level2_count + (IF d.level = "level2" THEN 1 ELSE 0),
                 starred_count |-> acc.starred_count + (IF d.starred THEN 1 ELSE 0),
                 last_active   |-> MaxTime(acc.last_active, d.created_at)])

EmptyStats ==
    [total |-> 0, level1_count |-> 0, level2_count |-> 0,
     starred_count |-> 0, last_active |-> None]

GetUserStats(coll, uid) ==
    LET matched == StatsMatch(coll, uid)
    IN  IF matched = {} THEN EmptyStats ELSE GroupStage(matched, EmptyStats)

\* ------------------------------------------------------------- handlers
\* The responses of the history and profile routes, from what the store
\* call returned.
NotFound(op, u, id) == Response(op, u, id, 404, <<"not found">>)

HistoryResponses(coll, u) ==
    { Response("history", u, NoId, 200, seq) : seq \in GetUserOptimizations(coll, u) }

DeleteResponse(coll, u, id) ==
    IF Cardinality(DeleteMatched(coll, id, u)) > 0
    THEN Response("delete", u, id, 200, <<"deleted">>)
    ELSE NotFound("delete", u, id)

RenameResponse(coll, u, id, new_name) ==
    IF Cardinality(RenameModified(coll, id, u, new_name)) > 0
    THEN Response("rename", u, id, 200, <<"renamed">>)
    ELSE NotFound("rename", u, id)

StarResponses(coll, u, id) ==
    IF ToggleFound(coll, id, u) = {}
    THEN { NotFound("star", u, id) }
    ELSE { Response("star", u, id, 200, <<ToggleNewVal(doc)>>) :
             doc \in ToggleFound(coll, id, u) }

StatsResponse(coll, u) ==
    Response("stats", u, NoId, 200, <<GetUserStats(coll, u)>>)

\* What analyse reads of run_pipeline's result: whether the error check
\* passed, the code, and the change lists of the two levels.
PipelineResult(code, level, outcome) ==
    [passed_error_check |-> outcome = "passed",
     original_code      |-> code,
     l1_changes         |-> <<"l1 change">>,
     l2                 |-> [changes_applied |-> <<"l2 change">>]]

\* The change list taken from level2's place, whatever the level.
ChangesNested(level, result) ==
    IF level = "none" THEN <<>> ELSE result.l2.changes_applied

\* analyse's `changes`: the change list of the level.
Changes(level, result) ==
    CASE level = "level1" -> result.l1_changes
      [] level = "level2" -> result.l2.changes_applied
      [] OTHER            -> <<>>

\* The auto-save whatever the error check said.
PassedErrorCheckIgnored(result) == TRUE

\* result.get("passed_error_check")
PassedErrorCheck(result) == result.passed_error_check

\* The response without the id of the saved document.
AnalyseResponseNoSession(u, result, session_id) ==
    Response("analyse", u, NoId, 200, <<result>>)

\* result["session_id"] = session_id; jsonify(result), 200
AnalyseResponse(u, result, session_id) ==
    Response("analyse", u, session_id, 200, <<result>>)

\* analyse: validation, the pipeline, the auto-save, the response.
Analyse(p, u, req) ==
    LET level  == LevelAlias(req.level)
        result == PipelineResult(req.code, level, req.outcome)
        fresh  == NewSession(u, result.original_code, level,
                             Changes(level, result), clock)
        doc    == SessionDoc(nextSid + 1, u, result.original_code, level,
                             Changes(level, result), clock)
        run    == Call("pipeline", "run_pipeline",
                       [code |-> req.code, level |-> level])
        save   == Call("optimizations", "insert_one", fresh)
    IN  /\ pc[p] = "idle"
        /\ IF Strip(req.code) = <<>>
           THEN /\ last' = Response("analyse", u, NoId, 400, <<"code">>)
                /\ calls' = <<>>
                /\ UNCHANGED <<sessions, nextSid>>
           ELSE IF level \notin VALID_LEVELS
           THEN /\ last' = Response("analyse", u, NoId, 400, <<"level">>)
                /\ calls' = <<>>
                /\ UNCHANGED <<sessions, nextSid>>
           ELSE IF req.outcome = "raises"
           THEN /\ last' = Response("analyse", u, NoId, 500, <<"internal">>)
                /\ calls' = <<run>>
                /\ UNCHANGED <<sessions, nextSid>>
           ELSE IF ~PassedErrorCheck(result)
           THEN /\ last' = AnalyseResponse(u, result, NoId)
                /\ calls' = <<run>>
                /\ UNCHANGED <<sessions, nextSid>>
           ELSE IF req.save_ok
           THEN /\ nextSid < MaxSessions
                /\ sessions' = sessions \cup {doc}
                /\ nextSid' = nextSid + 1
                /\ last' = AnalyseResponse(u, result, doc._id)
                /\ calls' = <<run, save>>
           ELSE /\ last' = AnalyseResponse(u, result, NoId)
                /\ calls' = <<run, save>>
                /\ UNCHANGED <<sessions, nextSid>>
        /\ UNCHANGED <<users, nextUid, clock, pc, loc, tokens>>

\* get_history
GetHistory(p, u) ==
    /\ pc[p] = "idle"
    /\ last' \in HistoryResponses(sessions, u)
    /\ calls' = << Call("optimizations", "find", UserQuery(u)) >>
    /\ UNCHANGED <<users, sessions, nextUid, nextSid, clock, pc, loc, tokens>>

\* delete_session
DeleteSession(p, u, id) ==
    LET matched == DeleteMatched(sessions, id, u)
    IN  /\ pc[p] = "idle"
        /\ sessions' = sessions \ matched
        /\ last' = DeleteResponse(sessions, u, id)
        /\ calls' = << Call("optimizations", "delete_one", OwnedQuery(id, u)) >>
        /\ UNCHANGED <<users, nextUid, nextSid, clock, pc, loc, tokens>>

\* rename_session
RenameSession(p, u, id, name_in) ==
    LET new_name == Strip(name_in)
        matched  == RenameMatched(sessions, id, u)
    IN  /\ pc[p] = "idle"
        /\ IF new_name = <<>>
           THEN /\ last' = Response("rename", u, id, 400, <<"name">>)
                /\ calls' = <<>>
                /\ UNCHANGED sessions
           ELSE /\ sessions' = (sessions \ matched) \cup
                       { [d EXCEPT !.name = new_name] : d \in matched }
                /\ last' = RenameResponse(sessions, u, id, new_name)
                /\ calls' = << Call("optimizations", "update_one",
                                    OwnedQuery(id, u)) >>
        /\ UNCHANGED <<users, nextUid, nextSid, clock, pc, loc, tokens>>

\* star_session, up to toggle_star's find_one and the flip of its result.
ToggleRead(p, u, id) ==
    LET found == ToggleFound(sessions, id, u)
    IN  /\ pc[p] = "idle"
        /\ calls' = << Call("optimizations", "find_one", OwnedQuery(id, u)) >>
        /\ IF found = {}
           THEN /\ last' \in StarResponses(sessions, u, id)
                /\ UNCHANGED <<pc, loc>>
           ELSE /\ \E doc \in found :
                       loc' = [loc EXCEPT ![p] =
                           [Idle EXCEPT !.caller = u, !.sid = id,
                                        !.new_val = ToggleNewVal(doc)]]
                /\ pc' = [pc EXCEPT ![p] = "toggle_write"]
                /\ UNCHANGED last
        /\ UNCHANGED <<users, sessions, nextUid, nextSid, clock, tokens>>

\* star_session, from toggle_star's update_one to the response.
ToggleWrite(p) ==
    LET hit == { d \in sessions : ToggleWriteFilter(d, loc[p].sid, loc[p].caller) }
    IN  /\ pc[p] = "toggle_write"
        /\ sessions' = (sessions \ hit) \cup
               { [d EXCEPT !.starred = loc[p].new_val] : d \in hit }
        /\ last' = Response("star", loc[p].caller, loc[p].sid, 200,
                            <<loc[p].new_val>>)
        /\ calls' = << Call("optimizations", "update_one",
                            ToggleWriteQuery(loc[p].sid, loc[p].caller)) >>
        /\ pc' = [pc EXCEPT ![p] = "idle"]
        /\ loc' = [loc EXCEPT ![p] = Idle]
        /\ UNCHANGED <<users, nextUid, nextSid, clock, tokens>>

\* profile_stats
ProfileStats(p, u) ==
    /\ pc[p] = "idle"
    /\ last' = StatsResponse(sessions, u)
    /\ calls' = << Call("optimizations", "aggregate", UserQuery(u)) >>
    /\ UNCHANGED <<users, sessions, nextUid, nextSid, clock, pc, loc, tokens>>

\* ---------------------------------------------------------- login and auth
\* The bodies a client may send to login: "email", "password".
WrongSecret == <<"w", "r", "o", "n", "g", "1">>
LoginBody(email, password) == [email |-> email, password |-> password]
LoginInputs ==
    { LoginBody(<<"a">>, Secret),
      LoginBody(<<" ", "A">>, Secret),
      LoginBody(<<"B", " ">>, <<" ">> \o Secret),
      LoginBody(<<"a">>, WrongSecret),
      LoginBody(<<"a">>, <<"bcrypt">> \o Secret),
      LoginBody(<<"c">>, Secret),
      LoginBody(<<>>, Secret),
      LoginBody(<<"a">>, <<>>),
      LoginBody(<<" ">>, <<" ">>) }

\* The number of tokens issued, those of registration included.
MaxTokens == 3

\* login's two 401 answers, to an email with no user and to a password
\* that does not match.
WrongPasswordTold == Response("login", NoId, NoId, 401, <<"Invalid password">>)
UnknownEmailResponse ==
    Response("login", NoId, NoId, 401, <<"Invalid email or password">>)
WrongPasswordResponse ==
    Response("login", NoId, NoId, 401, <<"Invalid email or password">>)

\* login
Login(p, body) ==
    LET email    == Lower(Strip(body.email))
        password == Strip(body.password)
        found    == FindUserByEmail(users, email)
    IN  /\ pc[p] = "idle"
        /\ IF email = <<>> \/ password = <<>>
           THEN /\ last' = Response("login", NoId, NoId, 400, <<"required">>)
                /\ calls' = <<>>
                /\ UNCHANGED tokens
           ELSE /\ calls' = << Call("users", "find_one", EmailQuery(email)) >>
                /\ IF found = {}
                   THEN /\ last' = UnknownEmailResponse
                        /\ UNCHANGED tokens
                   ELSE \E user_doc \in found :
                        IF ~CheckPw(password, user_doc.password)
                        THEN /\ last' = WrongPasswordResponse
                             /\ UNCHANGED tokens
                        ELSE LET token == MakeToken(SerializeUser(user_doc), clock)
                             IN  /\ Cardinality(tokens \cup {token}) <= MaxTokens
                                 /\ tokens' = tokens \cup {token}
                                 /\ last' = Response("login", user_doc._id, NoId,
                                                     200, <<token>>)
        /\ UNCHANGED <<users, sessions, nextUid, nextSid, clock, pc, loc>>

\* me
Me(p, u) ==
    LET found == FindUserById(users, u)
    IN  /\ pc[p] = "idle"
        /\ calls' = << Call("users", "find_one", [_id |-> u]) >>
        /\ IF found = {}
           THEN last' = Response("me", u, NoId, 404, <<"User not found">>)
           ELSE \E user \in found : last' = Response("me", u, NoId, 200, <<user>>)
        /\ UNCHANGED <<users, sessions, nextUid, nextSid, clock, pc, loc, tokens>>

\* require_auth's 401: the wrapped handler is not called.
Unauthorized(p, op, message) ==
    /\ pc[p] = "idle"
    /\ last' = Response(op, NoId, NoId, 401, <<message>>)
    /\ calls' = <<>>
    /\ UNCHANGED <<users, sessions, nextUid, nextSid, clock, pc, loc, tokens>>

\* g.user_id = payload["sub"]
Subject(header) == header.token.payload.sub

\* require_auth: the header must start with "Bearer ", the rest must decode;
\* the wrapped handler f then runs, with g.user_id the token's subject.
RequireAuth(p, op, header, f) ==
    IF header.prefix # "Bearer "
    THEN Unauthorized(p, op, "Missing or invalid Authorization header")
    ELSE LET outcome == Decode(header.token, clock)
         IN  IF outcome = "ExpiredSignatureError"
             THEN Unauthorized(p, op, "Token has expired")
             ELSE IF outcome = "InvalidTokenError"
             THEN Unauthorized(p, op, "Invalid token")
             ELSE f

\* The routes behind require_auth.
MeRoute(p, header) ==
    RequireAuth(p, "me", header, Me(p, Subject(header)))
AnalyseRoute(p, header, req) ==
    RequireAuth(p, "analyse", header, Analyse(p, Subject(header), req))
GetHistoryRoute(p, header) ==
    RequireAuth(p, "history", header, GetHistory(p, Subject(header)))
DeleteSessionRoute(p, header, id) ==
    RequireAuth(p, "delete", header, DeleteSession(p, Subject(header), id))
RenameSessionRoute(p, header, id, name_in) ==
    RequireAuth(p, "rename", header, RenameSession(p, Subject(header), id, name_in))
StarSessionRoute(p, header, id) ==
    RequireAuth(p, "star", header, ToggleRead(p, Subject(header), id))
ProfileStatsRoute(p, header) ==
    RequireAuth(p, "stats", header, ProfileStats(p, Subject(header)))

\* Time passes, to a later one of the instants at which requests are made.
TimePasses(instants) ==
    /\ \E t \in instants : t > clock /\ clock' = t
    /\ UNCHANGED <<users, sessions, nextUid, nextSid, pc, loc, last, tokens, calls>>

\* ------------------------------------------------------- specifications
\* The register requests of worker p.
UserStep(p) ==
    \/ \E body \in RegisterInputs : RegisterBegin(p, body)
    \/ RegisterInsert(p)

\* The requests of worker p that change the session store, made with the
\* token of a registered user.
MutateStep(p, analyses) ==
    \/ \E u \in UserIds, req \in analyses : Analyse(p, u, req)
    \/ \E u \in UserIds, id \in SessionIdInputs : DeleteSession(p, u, id)
    \/ \E u \in UserIds, id \in SessionIdInputs : ToggleRead(p, u, id)
    \/ ToggleWrite(p)

RenameStep(p, names) ==
    \E u \in UserIds, id \in SessionIdInputs, n \in names :
        RenameSession(p, u, id, n)

\* The requests of worker p that only read the session store.
QueryStep(p) ==
    \/ \E u \in UserIds : GetHistory(p, u)
    \/ \E u \in UserIds : ProfileStats(p, u)

\* The whole backend.
Next ==
    \/ Tick
    \/ \E p \in Procs : UserStep(p)
    \/ \E p \in Procs : MutateStep(p, AnalyseInputs)
    \/ \E p \in Procs : RenameStep(p, RenameInputs)
    \/ \E p \in Procs : QueryStep(p)
    \/ \E p \in Procs, body \in LoginInputs : Login(p, body)
    \/ \E p \in Procs, u \in UserIds : Me(p, u)

Spec == Init /\ [][Next]_vars

\* The user store alone: concurrent registrations.
NextUsers == \E p \in Procs : UserStep(p)
SpecUsers == Init /\ [][NextUsers]_vars

\* The state once two users have registered.
InitStore ==
    /\ users = { UserDoc(1, <<"n">>, <<"a">>, HashPw(Secret)),
                 UserDoc(2, <<"n">>, <<"b">>, HashPw(Secret)) }
    /\ sessions = {}
    /\ nextUid = 2
    /\ nextSid = 0
    /\ clock = 0
    /\ pc = [p \in Procs |-> "idle"]
    /\ loc = [p \in Procs |-> Idle]
    /\ last = Response("none", NoId, NoId, 0, <<>>)
    /\ tokens = { MakeToken(SerializeUser(u), 0) : u \in users }
    /\ calls = <<>>

\* The session store under concurrent requests of two registered users:
\* every handler that writes to it, at one level and one clock reading.
StoreAnalyseInputs == { AnalyseRun(<<"c">>, "LEVEL_1", "passed", TRUE) }

NextStore ==
    \/ \E p \in Procs : MutateStep(p, StoreAnalyseInputs)
    \/ \E p \in Procs : RenameStep(p, NonBlankRenameInputs)

SpecStore == InitStore /\ [][NextStore]_vars

\* The session store when one worker serves the requests one at a time:
\* every level, the clock, and the profile statistics.
SeqAnalyseInputs ==
    { AnalyseRun(<<"c">>, l, "passed", TRUE) : l \in {"none", "level_1", "level2"} }

NextSeq ==
    \/ Tick
    \/ MutateStep("p1", SeqAnalyseInputs)
    \/ \E u \in UserIds : ProfileStats("p1", u)

SpecSeq == InitStore /\ [][NextSeq]_vars

\* The history listing, with one worker, the clock, saves and deletes.
NextHistory ==
    \/ Tick
    \/ \E u \in UserIds, req \in StoreAnalyseInputs : Analyse("p1", u, req)
    \/ \E u \in UserIds, id \in SessionIdInputs : DeleteSession("p1", u, id)
    \/ \E u \in UserIds : GetHistory("p1", u)

SpecHistory == InitStore /\ [][NextHistory]_vars

\* Every history and profile route, with one worker, one level and one
\* clock reading.
NextProbe ==
    \/ MutateStep("p1", StoreAnalyseInputs)
    \/ RenameStep("p1", NonBlankRenameInputs)
    \/ QueryStep("p1")

SpecProbe == InitStore /\ [][NextProbe]_vars

\* The analyse route behind require_auth, with every request it may get,
\* among the other requests that write to the session store, one worker
\* serving them at one clock reading.
AnalyseHeaders ==
    { Header("Bearer ", tk) : tk \in tokens }
    \cup { Header("", NotAToken) }
    \cup { Header("Bearer ", Forged(tk, tk.payload.sub)) : tk \in tokens }

NextAnalyse ==
    \/ \E h \in AnalyseHeaders, req \in AnalyseInputs :
           AnalyseRoute("p1", h, req)
    \/ \E u \in UserIds, id \in SessionIdInputs : DeleteSession("p1", u, id)
    \/ \E u \in UserIds, id \in SessionIdInputs : ToggleRead("p1", u, id)
    \/ ToggleWrite("p1")
    \/ RenameStep("p1", NonBlankRenameInputs)

SpecAnalyse == InitStore /\ [][NextAnalyse]_vars

\* Every route behind require_auth, with every header a client may send,
\* before and after the tokens of registration expire; one worker.
GateInstants == { JWT_EXPIRES }
GateRenameInputs == { <<" ">>, <<"x">> }

RouteStep(p, h) ==
    \/ MeRoute(p, h)
    \/ \E req \in StoreAnalyseInputs : AnalyseRoute(p, h, req)
    \/ GetHistoryRoute(p, h)
    \/ \E id \in SessionIdInputs : DeleteSessionRoute(p, h, id)
    \/ \E id \in SessionIdInputs, n \in GateRenameInputs :
           RenameSessionRoute(p, h, id, n)
    \/ \E id \in SessionIdInputs : StarSessionRoute(p, h, id)
    \/ ProfileStatsRoute(p, h)

NextGate ==
    \/ TimePasses(GateInstants)
    \/ \E h \in HeaderInputs(tokens) : RouteStep("p1", h)
    \/ ToggleWrite("p1")

SpecGate == InitStore /\ [][NextGate]_vars

\* The life of a token: logins and me requests at instants around the
\* seventh day after a whole second and after a fraction of a second.
Instants ==
    { 0, 1,
      6 * Day + 23 * Hour, 6 * Day + 23 * Hour + 1,
      JWT_EXPIRES - 1, JWT_EXPIRES, JWT_EXPIRES + 1,
      JWT_EXPIRES + Hour, JWT_EXPIRES + Hour + 1 }

TokenLoginInputs ==
    { LoginBody(<<"a">>, Secret), LoginBody(<<"B", " ">>, <<" ">> \o Secret) }

NextToken ==
    \/ TimePasses(Instants)
    \/ \E body \in TokenLoginInputs : Login("p1", body)
    \/ \E tk \in tokens : MeRoute("p1", Header("Bearer ", tk))

SpecToken == InitStore /\ [][NextToken]_vars

\* The accounts: concurrent register, login and me requests, from the
\* empty store.
LoginStep(p) ==
    \/ \E body \in LoginInputs : Login(p, body)
    \/ \E tk \in tokens : MeRoute(p, Header("Bearer ", tk))

NextLogin ==
    \/ \E p \in Procs : UserStep(p)
    \/ \E p \in Procs : LoginStep(p)

SpecLogin == Init /\ [][NextLogin]_vars

\* Validation: register, login, rename and analyse requests with every
\* body a client may send, one worker serving them.
NextValidate ==
    \/ UserStep("p1")
    \/ \E body \in LoginInputs : Login("p1", body)
    \/ \E u \in UserIds, req \in AnalyseInputs : Analyse("p1", u, req)
    \/ RenameStep("p1", RenameInputs)

SpecValidate == InitStore /\ [][NextValidate]_vars

\* Level aliases: analyse requests that name level1 and level2 by their
\* aliases only, and the history read back.
Aliases == { "LEVEL_1", "LEVEL_2", "level_1", "level_2" }
AliasInputs ==
    { AnalyseRun(<<"c">>, l, o, TRUE) :
        l \in Aliases \cup { "none", "Level_1" }, o \in { "passed", "failed" } }

NextAlias ==
    \/ \E u \in UserIds, req \in AliasInputs : Analyse("p1", u, req)
    \/ \E u \in UserIds : GetHistory("p1", u)

SpecAlias == InitStore /\ [][NextAlias]_vars

\* The records under every operation: two workers serve the requests that
\* write to the session store, one of them also the requests that do not.
NextRecord ==
    \/ \E p \in Procs : MutateStep(p, StoreAnalyseInputs)
    \/ \E p \in Procs : RenameStep(p, NonBlankRenameInputs)
    \/ QueryStep("p1")
    \/ UserStep("p1")
    \/ \E body \in LoginInputs : Login("p1", body)
    \/ \E u \in UserIds : Me("p1", u)

SpecRecord == InitStore /\ [][NextRecord]_vars

\* ================================================================ claims
\* Two letters that differ at most in case.
SameLetter(c, d) == c = d \/ {c, d} = {"a", "A"} \/ {c, d} = {"b", "B"}

\* v is e in some letter case, with whitespace around it.
IsVariant(v, e) ==
    \E i \in 1..(Len(v) + 1) :
        /\ \A k \in 1..(i - 1) : v[k] \in Whitespace
        /\ i + Len(e) - 1 <= Len(v)
        /\ \A k \in 1..Len(e) : SameLetter(v[i + k - 1], e[k])
        /\ \A k \in (i + Len(e))..Len(v) : v[k] \in Whitespace

UsersWithEmail(coll, e) == { u \in coll : u.email = e }

\* C3: of the register requests that reach create_user with the same
\* email, the one whose insert finds no user with that email is answered
\* 201 and adds exactly one user; every insert that finds one is answered
\* 409 and adds none.  So of concurrent registrations with one email
\* exactly one succeeds, in every interleaving of their steps.
C3_OneRegistrationWins ==
    [][\A p \in Procs : RegisterInsert(p) =>
          LET e == loc[p].email
          IN  IF UsersWithEmail(users, e) # {}
              THEN /\ last'.status = 409
                   /\ users' = users
              ELSE /\ last'.status = 201
                   /\ Cardinality(UsersWithEmail(users', e)) = 1
                   /\ Cardinality(users') = Cardinality(users) + 1
                   /\ users \subseteq users']_vars

\* C3 witness: a registration has just succeeded while another worker
\* holds a validated registration with the same email.
C3_Witness ==
    /\ last.op = "register" /\ last.status = 201
    /\ \E p \in Procs : pc[p] = "reg_insert" /\ loc[p].email = last.val

\* C4: no two stored users have emails that differ only in letter case and
\* surrounding whitespace, and a register request whose email is such a
\* variant of a stored user's email is answered 409, adds no user and gets
\* no token.
C4_NoSharedEmail ==
    \A u, v \in users : u # v => ~IsVariant(u.email, v.email)

C4_EmailUniqueness ==
    /\ []C4_NoSharedEmail
    /\ [][\A p \in Procs :
            (RegisterInsert(p) /\ \E u \in users : IsVariant(loc[p].raw, u.email))
            => /\ last'.status = 409
               /\ last'.caller = NoId
               /\ users' = users]_vars

\* C4 witness: a user is stored, and a register request whose email is a
\* different spelling of that user's email has been answered 409.
C4_Witness ==
    /\ last.op = "register" /\ last.status = 409
    /\ \E u \in users : \E p \in Procs :
           /\ pc[p] = "reg_insert"
           /\ loc[p].raw # u.email
           /\ IsVariant(loc[p].raw, u.email)

\* The documents of owner u, and the document with id `id`.
Own(coll, u) == { d \in coll : d.user_id = u }
WithId(coll, id) == { d \in coll : d._id = id }
OwnedByAnother(coll, u, id) == \E d \in WithId(coll, id) : d.user_id # u

\* C1: a delete, a rename (with a name that is not blank) or a star request
\* made with one user's token on a session owned by another user is
\* answered 404, never reaches an update, and leaves every document as it
\* was; and the update of a star request in flight changes no document of
\* a user other than its caller, whatever ran in between.
C1_TenantIsolation ==
    [][\A p \in Procs :
         /\ \A u \in UserIds, id \in SessionIdInputs :
              OwnedByAnother(sessions, u, id) =>
                /\ DeleteSession(p, u, id) =>
                      last'.status = 404 /\ sessions' = sessions
                /\ \A n \in NonBlankRenameInputs :
                      RenameSession(p, u, id, n) =>
                        last'.status = 404 /\ sessions' = sessions
                /\ ToggleRead(p, u, id) =>
                      /\ last'.status = 404 /\ sessions' = sessions
                      /\ pc'[p] = "idle"
         /\ ToggleWrite(p) =>
              \A d \in sessions : d.user_id # loc[p].caller => d \in sessions'
      ]_vars

\* C1 witness: a request on a session that another user owns has been
\* answered 404, and the session is still stored.
C1_Witness ==
    /\ last.op \in {"delete", "rename", "star"}
    /\ last.status = 404
    /\ OwnedByAnother(sessions, last.caller, last.sid)

\* C2: a star request writes the flip of the value that is stored when it
\* writes: no other toggle has written between its read and its write, so
\* toggles on one record take effect one after the other.
C2_ToggleLinearizable ==
    [][\A p \in Procs : ToggleWrite(p) =>
          \A d \in WithId(sessions, loc[p].sid) : loc[p].new_val = ~d.starred
      ]_vars

\* C5: what a user is answered depends on that user's documents only: each
\* response of the history, stats, delete, rename and star routes is the
\* same on the store and on the store without the other users' documents,
\* where an id that another user owns is an id that does not exist.  Two
\* stores that differ only in other users' documents have the same such
\* restriction, hence the same responses.
C5_NonInference ==
    \A u \in UserIds :
        /\ HistoryResponses(sessions, u) = HistoryResponses(Own(sessions, u), u)
        /\ StatsResponse(sessions, u) = StatsResponse(Own(sessions, u), u)
        /\ \A id \in SessionIdInputs :
              /\ DeleteResponse(sessions, u, id) = DeleteResponse(Own(sessions, u), u, id)
              /\ StarResponses(sessions, u, id) = StarResponses(Own(sessions, u), u, id)
              /\ \A n \in NonBlankRenameInputs :
                    RenameResponse(sessions, u, id, Strip(n))
                      = RenameResponse(Own(sessions, u), u, id, Strip(n))
              /\ OwnedByAnother(sessions, u, id) =>
                    /\ DeleteResponse(sessions, u, id) = DeleteResponse({}, u, id)
                    /\ StarResponses(sessions, u, id) = StarResponses({}, u, id)
                    /\ \A n \in NonBlankRenameInputs :
                          RenameResponse(sessions, u, id, Strip(n))
                            = RenameResponse({}, u, id, Strip(n))

\* C5 witness: both users own documents, and a user has been answered
\* the history or the stats of the one document that user owns.
C5_Witness ==
    /\ last.op \in {"history", "stats"}
    /\ Cardinality(Own(sessions, last.caller)) = 1
    /\ \E d \in sessions : d.user_id # last.caller
    /\ last \in HistoryResponses(sessions, last.caller)
                  \cup {StatsResponse(sessions, last.caller)}

\* C9: a delete request is answered 200 exactly when a document with the
\* id and the caller as owner is stored at the call; then that document
\* alone is removed, and otherwise the store is unchanged.
C9_DeleteFrame ==
    [][\A p \in Procs, u \in UserIds, id \in SessionIdInputs :
         DeleteSession(p, u, id) =>
           LET target == { d \in sessions : d._id = id /\ d.user_id = u }
           IN  /\ last'.status = IF target # {} THEN 200 ELSE 404
               /\ Cardinality(target) <= 1
               /\ sessions' = sessions \ target
      ]_vars

\* C9 witness: a delete has been answered 200, the document is gone and
\* another document is still stored.
C9_Witness ==
    /\ last.op = "delete" /\ last.status = 200
    /\ WithId(sessions, last.sid) = {}
    /\ sessions # {}

\* C10: a rename request with a name that is not blank, on a stored
\* document that the caller owns, is answered 200 and leaves the trimmed
\* name stored; it is answered 404 only when there is no such document.
C10_RenameFoundIsRenamed ==
    [][\A p \in Procs, u \in UserIds, id \in SessionIdInputs,
         n \in NonBlankRenameInputs :
         RenameSession(p, u, id, n) =>
           LET target == { d \in sessions : d._id = id /\ d.user_id = u }
           IN  /\ last'.status = 404 => target = {}
               /\ target # {} =>
                     /\ last'.status = 200
                     /\ \A d \in WithId(sessions', id) : d.name = Strip(n)
      ]_vars

\* C6: for every owner, the stats returned are the number of the owner's
\* documents, the numbers of those with level level1, with level level2 and
\* with starred true, and the greatest created_at among them; with no
\* document the four counts are 0 and last_active is None.  No document of
\* another owner counts.
C6_AggregationCorrect ==
    \A u \in UserIds :
        LET own   == Own(sessions, u)
            stats == StatsResponse(sessions, u).val[1]
        IN  /\ StatsResponse(sessions, u).status = 200
            /\ stats.total = Cardinality(own)
            /\ stats.level1_count = Cardinality({ d \in own : d.level = "level1" })
            /\ stats.level2_count = Cardinality({ d \in own : d.level = "level2" })
            /\ stats.starred_count = Cardinality({ d \in own : d.starred })
            /\ IF own = {}
               THEN stats.last_active = None
               ELSE /\ \E d \in own : d.created_at = stats.last_active
                    /\ \A d \in own : d.created_at <= stats.last_active

\* C6 witness: a user with a starred level1 document has been answered
\* these stats while a later document of the other user is stored.
C6_Witness ==
    /\ last.op = "stats"
    /\ last = StatsResponse(sessions, last.caller)
    /\ last.val[1].total = 1
    /\ last.val[1].level1_count = 1
    /\ last.val[1].starred_count = 1
    /\ \E d \in sessions :
           d.user_id # last.caller /\ d.created_at > last.val[1].last_active

\* The elements of a list.
Elements(seq) == { seq[i] : i \in 1..Len(seq) }

\* C7: the list a history request is answered holds each document that the
\* caller owns at the call exactly once and nothing else, in the order of
\* created_at from the newest to the oldest.
C7_ListByOwner ==
    [][\A u \in UserIds : GetHistory("p1", u) =>
          LET seq == last'.val
          IN  /\ last'.status = 200
              /\ Elements(seq) = { d \in sessions : d.user_id = u }
              /\ Len(seq) = Cardinality(Elements(seq))
              /\ \A i \in 1..(Len(seq) - 1) :
                    seq[i].created_at >= seq[i + 1].created_at
      ]_vars

\* C7 witness: a user has been answered a list of two documents, the
\* later one first.
C7_Witness ==
    /\ last.op = "history"
    /\ last \in HistoryResponses(sessions, last.caller)
    /\ Len(last.val) = 2
    /\ last.val[1].created_at > last.val[2].created_at

\* C8: when one worker serves the requests one after the other, a star
\* request on a stored document of its caller returns the value it leaves
\* stored; it returns the opposite of what the star request just before it
\* on the same document returned, and true when the request just before it
\* was the analyse request that saved the document.
C8_SequentialToggleAlternates ==
    [][ToggleWrite("p1") =>
          LET id == loc["p1"].sid
              v  == last'.val[1]
          IN  /\ last'.op = "star" /\ last'.status = 200
              /\ WithId(sessions', id) # {}
              /\ \A d \in WithId(sessions', id) : d.starred = v
              /\ (last.op = "star" /\ last.sid = id /\ last.status = 200)
                    => v = ~last.val[1]
              /\ (last.op = "analyse" /\ last.sid = id) => v = TRUE
      ]_vars

\* C8 witness: a star request has returned false, so an earlier one on the
\* document returned true.
C8_Witness ==
    /\ last.op = "star" /\ last.status = 200
    /\ last.val = <<FALSE>>
    /\ \E d \in WithId(sessions, last.sid) : ~d.starred
\* The level a submitted level stands for.
CanonicalLevel(l) ==
    IF l \in {"level1", "LEVEL_1", "level_1"} THEN "level1"
    ELSE IF l \in {"level2", "LEVEL_2", "level_2"} THEN "level2"
    ELSE l

\* The header carries a token that this server issued and that has not
\* expired.
Authenticated(h) ==
    h.prefix = "Bearer " /\ h.token \in tokens /\ clock < h.token.payload.exp

\* The documents that a step adds to the session store: those with an id
\* that no stored document had.
Added == { d \in sessions' : \A e \in sessions : e._id # d._id }

\* The request passes analyse's validation.
ValidAnalyse(req) ==
    /\ \E i \in 1..Len(req.code) : req.code[i] # " "
    /\ CanonicalLevel(req.level) \in {"none", "level1", "level2"}

\* The analyse requests that pass authentication and validation and whose
\* pipeline result passed the error check.
PassingHeaders == { h \in AnalyseHeaders : Authenticated(h) }
PassingInputs ==
    { req \in AnalyseInputs : ValidAnalyse(req) /\ req.outcome = "passed" }

\* C11: a step adds a document to the session store only if it is an
\* analyse request with a token of this server, with code that is not blank
\* and a recognized level, whose pipeline result passed the error check,
\* and is no analyse request of another kind (no valid token, invalid
\* input, a pipeline that raises, a result that did not pass the check);
\* the one document added has the token's subject as owner, starred false,
\* an id that no stored document has, and the level the submitted level
\* stands for.
C11_SessionCreationRule ==
    [][(Added # {}) =>
         /\ \E h \in PassingHeaders, req \in PassingInputs :
               /\ AnalyseRoute("p1", h, req)
               /\ \E d \in Added :
                     /\ sessions' = sessions \cup {d}
                     /\ d.user_id = h.token.payload.sub
                     /\ d.starred = FALSE
                     /\ d.level = CanonicalLevel(req.level)
         /\ \A h \in AnalyseHeaders, req \in AnalyseInputs :
               AnalyseRoute("p1", h, req) =>
                  h \in PassingHeaders /\ req \in PassingInputs
      ]_vars

\* C11 witness: an analyse request submitted under an alias has been
\* saved as a level2 document of its caller, next to an earlier document.
C11_Witness ==
    /\ last.op = "analyse" /\ last.status = 200 /\ last.sid # NoId
    /\ \E d \in sessions :
          /\ d._id = last.sid /\ d.user_id = last.caller
          /\ d.level = "level2" /\ ~d.starred
    /\ Cardinality(sessions) = 2

\* C12: an analyse request that passes authentication and validation and
\* whose pipeline result passed the error check is answered 200 with that
\* result; when the save fails the session id is None and the store is
\* unchanged, when it succeeds the session id is the id of the one document
\* added; and no analyse request that adds no document is answered with a
\* session id.
C12_BestEffortPersistence ==
    [][/\ \A h \in PassingHeaders, req \in PassingInputs :
             AnalyseRoute("p1", h, req) =>
               /\ last'.status = 200
               /\ last'.val[1].passed_error_check
               /\ last'.val[1].original_code = req.code
               /\ IF req.save_ok
                  THEN \E d \in Added :
                         /\ sessions' = sessions \cup {d}
                         /\ last'.sid = d._id
                  ELSE last'.sid = NoId /\ sessions' = sessions
       /\ (Added = {} /\ last'.op = "analyse" /\ last'.sid # NoId) =>
             ~ \E h \in AnalyseHeaders, req \in AnalyseInputs :
                   AnalyseRoute("p1", h, req)
      ]_vars

\* C12 witness: the pipeline result passed the error check, the save was
\* tried and failed, and the request was answered 200 without a session id.
C12_Witness ==
    /\ last.op = "analyse" /\ last.status = 200 /\ last.sid = NoId
    /\ last.val[1].passed_error_check
    /\ Len(calls) = 2 /\ calls[2].call = "insert_one"
    /\ \A d \in sessions : d.level # "level2"
\* The headers that carry a token of this server that has not expired,
\* and the others.
GoodHeaders == { h \in HeaderInputs(tokens) : Authenticated(h) }
BadHeaders == HeaderInputs(tokens) \ GoodHeaders

\* The step answers 401, calls neither a collection nor the pipeline, and
\* changes nothing.
Refused ==
    /\ last'.status = 401
    /\ calls' = <<>>
    /\ UNCHANGED <<users, sessions, nextUid, nextSid, tokens, pc, loc>>

\* Each call of the step to a collection passes `sub` where it passes a
\* user: as the _id sought among the users, as the user_id of a filter or
\* of a document of the session store.
CallsAsSubject(sub) ==
    \A i \in 1..Len(calls') :
        /\ calls'[i].target = "users" => calls'[i].arg = [_id |-> sub]
        /\ (calls'[i].target = "optimizations"
              /\ "user_id" \in DOMAIN calls'[i].arg)
             => calls'[i].arg.user_id = sub

\* C13: on each route behind require_auth, a request whose header is
\* absent, does not start with "Bearer ", or carries a token that is
\* expired, forged or changed is answered 401 with no call to a collection
\* or to the pipeline and no change of state; a request with a header that
\* is accepted runs the handler with the token's subject as the caller:
\* the answer and every user id passed to a collection name that subject,
\* whatever the path and the body say.
C13_AuthenticationGate ==
    [][~Refused =>
         /\ ~ \E h \in BadHeaders : RouteStep("p1", h)
         /\ \A h \in GoodHeaders : RouteStep("p1", h) =>
               /\ IF pc'["p1"] = "idle"
                  THEN last'.caller = h.token.payload.sub
                  ELSE loc'["p1"].caller = h.token.payload.sub
               /\ CallsAsSubject(h.token.payload.sub)
      ]_vars

\* C13 witness: the owner of a stored session presented the token of
\* registration after it expired and was refused, the session untouched.
C13_Witness ==
    /\ last.status = 401 /\ last.val = <<"Token has expired">>
    /\ last.op \in {"delete", "star", "rename"}
    /\ calls = <<>>
    /\ clock >= JWT_EXPIRES
    /\ sessions # {}
\* What validation answers to a token at time t.
Accepted(tk, t) == Decode(tk, t) = "ok"
Expired(tk, t) == Decode(tk, t) = "ExpiredSignatureError"

\* C14 as stated: a token issued by a login at time T carries
\* exp = T + 7 days, is accepted at every time from T up to T + 7 days,
\* T + 7 days excluded, and is rejected as expired at every time from
\* T + 7 days on.
C14_TokenLifecycle ==
    [][\A body \in TokenLoginInputs :
         (Login("p1", body) /\ last'.status = 200) =>
            LET tk == last'.val[1]
                T  == clock
            IN  /\ tk.payload.exp = T + JWT_EXPIRES
                /\ \A t \in Instants :
                      /\ (T <= t /\ t < T + JWT_EXPIRES) => Accepted(tk, t)
                      /\ t >= T + JWT_EXPIRES => Expired(tk, t)
      ]_vars

\* C14 as amended: a token issued by a login at time T carries as exp the
\* whole second in which T + 7 days falls; it is accepted at every time
\* from T up to exp, exp excluded, and rejected as expired at every time
\* from exp on: accepted at T and at T + 6 days 23 hours, rejected at
\* T + 7 days 1 hour.  A me request with an issued token is answered 401
\* "expired" exactly when the clock has reached the token's exp, and 200
\* otherwise.
C14_TokenLifecycleWholeSeconds ==
    [][/\ \A body \in TokenLoginInputs :
            (Login("p1", body) /\ last'.status = 200) =>
               LET tk == last'.val[1]
                   T  == clock
               IN  /\ tk.payload.exp = NumericDate(T + JWT_EXPIRES)
                   /\ tk.payload.exp <= T + JWT_EXPIRES
                   /\ T + JWT_EXPIRES < tk.payload.exp + TicksPerSecond
                   /\ \A t \in Instants :
                         /\ (T <= t /\ t < tk.payload.exp) => Accepted(tk, t)
                         /\ t >= tk.payload.exp => Expired(tk, t)
                   /\ Accepted(tk, T)
                   /\ Accepted(tk, T + 6 * Day + 23 * Hour)
                   /\ Expired(tk, T + 7 * Day + Hour)
       /\ \A tk \in tokens :
            MeRoute("p1", Header("Bearer ", tk)) =>
               IF clock >= tk.payload.exp
               THEN last'.status = 401 /\ last'.val = <<"Token has expired">>
               ELSE last'.status = 200 /\ last'.caller = tk.payload.sub
      ]_vars

\* C14 witness: a login a fraction of a second after a whole second has
\* just been answered with a token whose exp is less than 7 days away.
C14_Witness ==
    /\ last.op = "login" /\ last.status = 200
    /\ NumericDate(clock) # clock
    /\ last.val[1] \in tokens
    /\ last.val[1].payload.exp < clock + JWT_EXPIRES
    /\ Accepted(last.val[1], clock)
\* A field that is missing, or holds nothing but whitespace.
Blank(s) == \A i \in 1..Len(s) : s[i] \in Whitespace

\* The login names no stored user; it names one, with another password
\* than the one stored.
NoSuchUser(body) ==
    /\ ~Blank(body.email) /\ ~Blank(body.password)
    /\ \A u \in users : ~IsVariant(body.email, u.email)
WrongPassword(body) ==
    /\ ~Blank(body.email) /\ ~Blank(body.password)
    /\ \E u \in users :
          /\ IsVariant(body.email, u.email)
          /\ u.password # HashPw(Strip(body.password))

\* C15: a login with an email of no user and a login with a user's email
\* and a wrong password are both answered 401, issue no token and change
\* nothing stored; and a failed login that follows a failed login is
\* answered exactly as the one before it, so the answers to the two kinds
\* of failure are the same.
C15_LoginUndifferentiated ==
    [][\A p \in Procs, body \in LoginInputs :
         (Login(p, body) /\ (NoSuchUser(body) \/ WrongPassword(body))) =>
            /\ last'.status = 401
            /\ last'.caller = NoId
            /\ tokens' = tokens /\ users' = users /\ sessions' = sessions
            /\ (last.op = "login" /\ last.status = 401) => last' = last
      ]_vars

\* C15 witness: a login with a stored user's email has been answered 401,
\* when another email is that of no user.
C15_Witness ==
    /\ last.op = "login" /\ last.status = 401
    /\ Len(calls) = 1
    /\ \E u \in users : calls[1].arg.email = u.email
    /\ Cardinality(users) = 2
\* An email as the store keeps it: no whitespace, no capital letter.
Normalized(e) == \A i \in 1..Len(e) : e[i] \notin Whitespace \cup {"A", "B"}

\* C17: once a user is registered, a login with that user's email in any
\* letter case and with whitespace around it, and with the registered
\* password, is answered 200 with a token of this server whose subject is
\* the id that registration gave the user; and a me request with an
\* issued token is answered 200 with the name and the normalized email of
\* the user whose id is the token's subject.
C17_RegisterLoginRoundTrip ==
    [][/\ \A p \in Procs, body \in LoginInputs :
            Login(p, body) =>
              \A u \in users :
                 (/\ IsVariant(body.email, u.email)
                  /\ u.password = HashPw(Strip(body.password))) =>
                    /\ last'.status = 200
                    /\ last'.val[1] \in tokens'
                    /\ last'.val[1].payload.sub = u._id
                    /\ Accepted(last'.val[1], clock)
       /\ \A p \in Procs, tk \in tokens :
            MeRoute(p, Header("Bearer ", tk)) =>
              /\ last'.status = 200
              /\ \E u \in users :
                    /\ u._id = tk.payload.sub
                    /\ last'.val[1] = [_id |-> u._id, name |-> u.name,
                                       email |-> u.email]
                    /\ Normalized(u.email)
                    /\ ~Blank(u.name)
      ]_vars

\* C17 witness: the user registered as "b" has logged in as "B " with
\* whitespace before the password, while another user is registered too.
C17_Witness ==
    /\ last.op = "login" /\ last.status = 200
    /\ last.val[1].payload.email = <<"b">>
    /\ \E u \in users : u._id = last.caller /\ u.email = <<"b">>
    /\ Cardinality(users) = 2
\* The step answers 400, calls neither a collection nor the pipeline,
\* and leaves the stores, the tokens and the worker as they were.
Rejected ==
    /\ last'.status = 400
    /\ calls' = <<>>
    /\ UNCHANGED <<users, sessions, nextUid, nextSid, tokens, pc, loc>>

\* C16: a register request with a missing or blank name, email or
\* password or with a password shorter than 6 characters, a login request
\* with a missing or blank email or password, a rename request with a name
\* that is empty after trimming, and an analyse request with blank code or
\* an unrecognized level are answered 400 without any call to a
\* collection or to the pipeline, with nothing changed.
C16_ValidationPrecedesStore ==
    [][/\ \A body \in RegisterInputs :
            (/\ RegisterBegin("p1", body)
             /\ \/ Blank(body.name) \/ Blank(body.email) \/ Blank(body.password)
                \/ Len(body.password) < 6) => Rejected
       /\ \A body \in LoginInputs :
            (/\ Login("p1", body)
             /\ Blank(body.email) \/ Blank(body.password)) => Rejected
       /\ \A u \in UserIds, id \in SessionIdInputs, n \in RenameInputs :
            (RenameSession("p1", u, id, n) /\ Blank(n)) => Rejected
       /\ \A u \in UserIds, req \in AnalyseInputs :
            (/\ Analyse("p1", u, req)
             /\ \/ Blank(req.code)
                \/ CanonicalLevel(req.level) \notin {"none", "level1", "level2"})
               => Rejected
      ]_vars

\* C16 witness: the owner of a stored session has asked to rename it to a
\* name of whitespace and has been answered 400, the store not called.
C16_Witness ==
    /\ last.op = "rename" /\ last.status = 400
    /\ calls = <<>>
    /\ \E d \in sessions : d._id = last.sid /\ d.user_id = last.caller
\* The change list the claim gives for a level.
ChangeList(level, result) ==
    IF level = "level1" THEN result.l1_changes
    ELSE IF level = "level2" THEN result.l2.changes_applied
    ELSE <<>>

\* C18: an analyse request that names its level by an alias (LEVEL_1,
\* level_1, LEVEL_2, level_2) is answered and takes effect exactly as the
\* same request with the canonical level does; the pipeline is called with
\* the canonical level, the record persisted has the canonical level and
\* the change list of that level (level1: l1_changes, level2:
\* l2.changes_applied, none: empty), and every persisted record's level is
\* one of none, level1, level2.
C18_LevelAliasNormalization ==
    [][/\ \A u \in UserIds, req \in AliasInputs :
            (Analyse("p1", u, req) /\ req.level \in Aliases) =>
                LET canon  == CanonicalLevel(req.level)
                    result == PipelineResult(req.code, canon, req.outcome)
                IN  /\ Analyse("p1", u, [req EXCEPT !.level = canon])
                    /\ last'.status = 200
                    /\ \A i \in 1..Len(calls') :
                          calls'[i].target = "pipeline" =>
                              calls'[i].arg.level = canon
                    /\ \A d \in Added :
                          /\ d.level = canon
                          /\ d.changes = ChangeList(canon, result)
       /\ \A u \in UserIds, req \in AliasInputs :
            (Analyse("p1", u, req) /\ req.level = "none") =>
                \A d \in Added : d.level = "none" /\ d.changes = <<>>
       /\ \A d \in sessions \cup sessions' :
            d.level \in { "none", "level1", "level2" }
      ]_vars

\* C18 witness: an analyse request, its level named by an alias only, has
\* been answered with the id of a record persisted with level2 and with
\* the nested change list, the pipeline called with level2.
C18_Witness ==
    /\ last.op = "analyse" /\ last.status = 200 /\ last.sid # NoId
    /\ Len(calls) = 2 /\ calls[1].target = "pipeline"
    /\ calls[1].arg.level = "level2"
    /\ \E d \in sessions :
          /\ d._id = last.sid
          /\ d.level = "level2"
          /\ d.changes = <<"l2 change">>
\* The step is one of a list, stats, login, me, register or analyse
\* request.
NonMutatingStep ==
    \/ \E p \in Procs, u \in UserIds : GetHistory(p, u) \/ ProfileStats(p, u)
    \/ \E p \in Procs, u \in UserIds : Me(p, u)
    \/ \E p \in Procs, body \in LoginInputs : Login(p, body)
    \/ \E p \in Procs : UserStep(p)
    \/ \E p \in Procs, u \in UserIds, req \in AnalyseInputs : Analyse(p, u, req)

\* C19: a session record keeps its owner, creation time, level, code and
\* change list for as long as its id is in the store; its name changes
\* only in a rename request of its owner that is answered 200, its starred
\* flag only in the write of a toggleStar request of its owner; a record
\* leaves the store only in a delete request of its owner; list, stats, login, me,
\* register and analyse requests leave every existing record as it is.
C19_RecordFieldStability ==
    [][/\ \A d \in sessions, e \in sessions' : d._id = e._id =>
            /\ e.user_id = d.user_id
            /\ e.created_at = d.created_at
            /\ e.level = d.level
            /\ e.original_code = d.original_code
            /\ e.changes = d.changes
            /\ e.name # d.name =>
                  /\ \E p \in Procs, n \in RenameInputs :
                        RenameSession(p, d.user_id, d._id, n)
                  /\ last'.op = "rename" /\ last'.status = 200
                  /\ e.starred = d.starred
            /\ e.starred # d.starred =>
                  /\ \E p \in Procs :
                        /\ ToggleWrite(p)
                        /\ loc[p].caller = d.user_id
                        /\ loc[p].sid = d._id
                  /\ e.name = d.name
       /\ \A d, e \in sessions' : d._id = e._id => d = e
       /\ \A d \in sessions : (\A e \in sessions' : e._id # d._id) =>
            \E p \in Procs : DeleteSession(p, d.user_id, d._id)
       /\ sessions \ sessions' # {} => ~NonMutatingStep
      ]_vars

\* C19 witness: a record that has been renamed by its owner and starred by
\* its owner while another record, of the other user, is in the store as
\* it was created.
C19_Witness ==
    \E d, e \in sessions :
        /\ d.user_id # e.user_id
        /\ d.name = <<"x">> /\ d.starred
        /\ d.level = "level1" /\ d.original_code = <<"c">>
        /\ e.name = AutoName(e.created_at) /\ ~e.starred
\* The caller of the request a step belongs to: the one kept by the worker
\* that is between toggle_star's two calls, else the one answered.
StepCaller ==
    IF \E p \in Procs : pc[p] = "toggle_write" /\ pc'[p] = "idle"
    THEN loc[CHOOSE p \in Procs : pc[p] = "toggle_write" /\ pc'[p] = "idle"].caller
    ELSE IF \E p \in Procs : pc[p] = "idle" /\ pc'[p] = "toggle_write"
    THEN loc'[CHOOSE p \in Procs : pc[p] = "idle" /\ pc'[p] = "toggle_write"].caller
    ELSE last'.caller

\* C20: every query and every mutation that list, delete, rename,
\* toggleStar and stats issue against the optimizations collection carries
\* a filter on user_id, equal to the caller's id; none, the update of
\* toggleStar included, selects a document by its _id alone.
C20_OwnerScopedAccess ==
    [][\A i \in 1..Len(calls') :
          (calls'[i].target = "optimizations" /\ calls'[i].call # "insert_one") =>
              /\ "user_id" \in DOMAIN calls'[i].arg
              /\ calls'[i].arg.user_id = StepCaller
      ]_vars
\* C21: whenever star_session answers 200 {starred: v}, the record was in
\* the store at toggle_star's update_one and its starred flag is v right
\* after it; a toggle whose record was deleted between its find_one and
\* its update_one reports no new value, and the update never brings a
\* deleted record back.
C21_ToggleInterleavedWithDelete ==
    [][\A p \in Procs : (pc[p] = "toggle_write" /\ pc'[p] = "idle") =>
          /\ last'.op = "star" /\ last'.status = 200 =>
                /\ \E d \in sessions : d._id = loc[p].sid
                /\ \E d \in sessions' :
                      d._id = loc[p].sid /\ d.starred = last'.val[1]
          /\ \A d \in sessions' : \E e \in sessions : e._id = d._id
      ]_vars
====
